---- MODULE Spec2Model ----
(***************************************************************************)
(* Model of src/graph.py: the Graph class with its two mirrored adjacency  *)
(* maps (outedges, inedges), the edge primitives add_directed_edge and     *)
(* del_directed_edge, and the worklist algorithm reduce_graph.             *)
(*                                                                         *)
(* A Python dict is a function whose DOMAIN is its key set; a Python list  *)
(* is a sequence.  Every action is one complete call of a public method,   *)
(* or, inside reduce_graph, one step of its loop that issues exactly one   *)
(* call of an edge primitive.                                              *)
(***************************************************************************)
EXTENDS Integers, Sequences, FiniteSets, TLC

\* Node ids are 1..NumNodes; graphs hold at most MaxEdges edges.
\* Input files hold at most MaxLines lines.
NumNodes == 3
MaxEdges == 3
MaxLines == 2

Nodes == 1..NumNodes

VARIABLES
    outedges,    \* Graph.outedges: node -> list of successors
    inedges,     \* Graph.inedges: node -> list of predecessors
    pc,          \* "idle" before a public call, "returned" after it, else the
                 \* position in reduce_graph
    candidates,  \* reduce_graph's deque of candidate nodes
    node,        \* reduce_graph's local: the node popped last
    nbr_in,      \* reduce_graph's local: inedges[0] of node
    nbr_out,     \* reduce_graph's local: outedges[0] of node
    call,        \* the edge primitive or public method called last, with its arguments
    ret,         \* the value that call returned (None when it returns nothing)
    exc,         \* the exception that call raised, "none" when it returned
    edges0,      \* the edge set reduce_graph started from (history)
    iter0,       \* the number of edges when the current iteration popped its node (history)
    reduced,     \* TRUE while the graph is as reduce_graph left it (history)
    iterE,       \* the edge set when the current iteration popped its node (history)
    eliminated,  \* the nodes this run of reduce_graph has eliminated (history)
    infile,      \* main's sys.stdin: its lines and the number of lines read
    outfile      \* main's sys.stdout: the lines written

vars == <<outedges, inedges, pc, candidates, node, nbr_in, nbr_out,
          call, ret, exc, edges0, iter0, reduced, iterE, eliminated,
          infile, outfile>>

None == 0

\* No input: the methods are called directly, not by main.
NoFile == [lines |-> <<>>, pos |-> 0]

(***************************************************************************)
(* Lists and dicts.                                                        *)
(***************************************************************************)
\* dict(): no keys.
EmptyMap == [k \in {} |-> <<>>]

\* "x in list"
InList(x, list) == \E i \in 1..Len(list) : list[i] = x

\* list.index(x): the first position holding x (the caller checks x is in list).
ListIndex(list, x) == CHOOSE i \in 1..Len(list) :
                         /\ list[i] = x
                         /\ \A j \in 1..(i - 1) : list[j] # x

\* Mutant: list.pop() without the index removes the last element.
ListPop_last(list, idx) == SubSeq(list, 1, Len(list) - 1)

\* list.pop(idx)
ListPop(list, idx) == [i \in 1..(Len(list) - 1) |->
                          IF i < idx THEN list[i] ELSE list[i + 1]]

\* dict.pop(key)
MapPop(edgemap, key) == [k \in (DOMAIN edgemap) \ {key} |-> edgemap[k]]

\* edgemap[key] = value
MapPut(edgemap, key, value) ==
    [k \in (DOMAIN edgemap) \cup {key} |-> IF k = key THEN value ELSE edgemap[k]]

\* The lookups of reduce_graph: edgemap[node], [] on KeyError.
Lookup(edgemap, n) == IF n \in DOMAIN edgemap THEN edgemap[n] ELSE <<>>

(***************************************************************************)
(* Edge primitives.                                                        *)
(***************************************************************************)
\* Mutant: appends without testing for a duplicate.
_add_edge_nodupcheck(edgemap, start, end) ==
    [map |-> MapPut(edgemap, start, Append(Lookup(edgemap, start), end)),
     ret |-> 0]

\* Mutant: reports 1 for the edge it has just appended and 0 for a duplicate.
_add_edge_retflip(edgemap, start, end) ==
    LET edgelist == Lookup(edgemap, start)
    IN  IF InList(end, edgelist)
          THEN [map |-> edgemap, ret |-> 0]
          ELSE [map |-> MapPut(edgemap, start, Append(edgelist, end)), ret |-> 1]

_add_edge(edgemap, start, end) ==
    LET withkey == IF start \in DOMAIN edgemap
                     THEN edgemap
                     ELSE MapPut(edgemap, start, <<>>)
        edgelist == withkey[start]
    IN  IF InList(end, edgelist)
          THEN [map |-> withkey, ret |-> 1]
          ELSE [map |-> MapPut(withkey, start, Append(edgelist, end)), ret |-> 0]

\* Mutant: records the reverse edge under the wrong key.
add_directed_edge_samekey(out, in, start, end) ==
    LET a == _add_edge(out, start, end)
        b == _add_edge(in, start, end)
    IN  [outedges |-> a.map, inedges |-> b.map, ret |-> a.ret,
         exc |-> IF a.ret = b.ret THEN "none" ELSE "AssertionError"]

add_directed_edge(out, in, start, end) ==
    LET a == _add_edge(out, start, end)
        b == _add_edge(in, end, start)
    IN  [outedges |-> a.map, inedges |-> b.map, ret |-> a.ret,
         exc |-> IF a.ret = b.ret THEN "none" ELSE "AssertionError"]

\* Mutant: stores the empty list it made for a missing key.
_del_edge_storeskey(edgemap, start, end) ==
    LET edgelist == Lookup(edgemap, start)
    IN  IF ~InList(end, edgelist)
          THEN [map |-> MapPut(edgemap, start, edgelist), raised |-> TRUE]
          ELSE LET rest == ListPop(edgelist, ListIndex(edgelist, end))
               IN  [map |-> IF Len(rest) = 0 THEN MapPop(edgemap, start)
                                             ELSE MapPut(edgemap, start, rest),
                    raised |-> FALSE]

\* Mutant: keeps the key of a list that became empty.
_del_edge_keepskey(edgemap, start, end) ==
    LET edgelist == Lookup(edgemap, start)
    IN  IF ~InList(end, edgelist)
          THEN [map |-> edgemap, raised |-> TRUE]
          ELSE [map |-> MapPut(edgemap, start,
                               ListPop(edgelist, ListIndex(edgelist, end))),
                raised |-> FALSE]

_del_edge(edgemap, start, end) ==
    LET edgelist == Lookup(edgemap, start)
    IN  IF ~InList(end, edgelist)
          THEN [map |-> edgemap, raised |-> TRUE]
          ELSE LET rest == ListPop(edgelist, ListIndex(edgelist, end))
               IN  [map |-> IF Len(rest) = 0 THEN MapPop(edgemap, start)
                                             ELSE MapPut(edgemap, start, rest),
                    raised |-> FALSE]

del_directed_edge(out, in, start, end) ==
    LET a == _del_edge(out, start, end)
    IN  IF a.raised
          THEN [outedges |-> a.map, inedges |-> in, exc |-> "KeyError"]
          ELSE LET b == _del_edge(in, end, start)
               IN  IF b.raised
                     THEN [outedges |-> a.map, inedges |-> b.map, exc |-> "KeyError"]
                     ELSE [outedges |-> a.map, inedges |-> b.map, exc |-> "none"]

(***************************************************************************)
(* Views of the graph.                                                     *)
(***************************************************************************)
HasEdge(edgemap, a, b) == a \in DOMAIN edgemap /\ InList(b, edgemap[a])

EdgeSet(edgemap) == {e \in Nodes \X Nodes : HasEdge(edgemap, e[1], e[2])}

RECURSIVE SumLen(_, _)
SumLen(edgemap, keys) ==
    IF keys = {} THEN 0
    ELSE LET k == CHOOSE x \in keys : TRUE
         IN  Len(edgemap[k]) + SumLen(edgemap, keys \ {k})

\* The number of list entries of a map: the number of edges it records.
NumEdges(edgemap) == SumLen(edgemap, DOMAIN edgemap)

OutDegree(n) == Len(Lookup(outedges, n))
InDegree(n)  == Len(Lookup(inedges, n))

(***************************************************************************)
(* reduce_graph, step by step.                                             *)
(***************************************************************************)
\* The orders deque(self.outedges.keys()) may have: any order of the keys.
KeyOrders(edgemap) ==
    {q \in [1..Cardinality(DOMAIN edgemap) -> DOMAIN edgemap] :
        \A i, j \in DOMAIN q : i # j => q[i] # q[j]}

\* Mutant: reads the head of the deque and leaves it there.
PopLeft_peek(cands) == cands

\* What candidates.popleft() leaves in the deque.
PopLeft(cands) == Tail(cands)

\* Mutant: a node whose only edge is its self-loop is kept.
Removable_noloops(out, in, n) ==
    /\ Len(Lookup(out, n)) = 1
    /\ Len(Lookup(in, n)) = 1
    /\ Lookup(out, n)[1] # n

\* "if len(outedges) == 1 and len(inedges) == 1"
Removable(out, in, n) == Len(Lookup(out, n)) = 1 /\ Len(Lookup(in, n)) = 1

\* Mutant: no special case for a self-cycle.
IsSelfCycle_never(n, succ) == FALSE

\* Mutant: the test is inverted.
IsSelfCycle_inverted(n, succ) == n # succ

\* "if node == nbr_out"
IsSelfCycle(n, succ) == n = succ

\* Mutant: never appends the neighbours again.
Requeue_never(cands, already_connected, pred, succ) == cands

\* Mutant: appends the predecessor only.
Requeue_predonly(cands, already_connected, pred, succ) ==
    IF already_connected = 1 THEN Append(cands, pred) ELSE cands

\* "if already_connected == 1: candidates.append(nbr_in); candidates.append(nbr_out)"
Requeue(cands, already_connected, pred, succ) ==
    IF already_connected = 1 THEN Append(Append(cands, pred), succ) ELSE cands

(***************************************************************************)
(* reduce_graph as a function of the maps and of the order of the deque,   *)
(* and the maps a sequence of add_directed_edge calls builds.              *)
(***************************************************************************)
RECURSIVE reduce_loop(_, _, _)
reduce_loop(out, in, cands) ==
    IF Len(cands) = 0
      THEN [outedges |-> out, inedges |-> in, exc |-> "none"]
      ELSE
        LET n == Head(cands)
            rest == PopLeft(cands)
        IN  IF ~Removable(out, in, n)
              THEN reduce_loop(out, in, rest)
              ELSE
                LET pred == Lookup(in, n)[1]
                    succ == Lookup(out, n)[1]
                    d1 == del_directed_edge(out, in, pred, n)
                IN  IF d1.exc # "none" THEN d1
                    ELSE IF IsSelfCycle(n, succ)
                      THEN reduce_loop(d1.outedges, d1.inedges, rest)
                    ELSE
                      LET d2 == del_directed_edge(d1.outedges, d1.inedges, n, succ)
                      IN  IF d2.exc # "none" THEN d2
                          ELSE
                            LET a == add_directed_edge(d2.outedges, d2.inedges,
                                                       pred, succ)
                            IN  IF a.exc # "none"
                                  THEN [outedges |-> a.outedges,
                                        inedges |-> a.inedges, exc |-> a.exc]
                                  ELSE reduce_loop(a.outedges, a.inedges,
                                                   Requeue(rest, a.ret, pred, succ))

\* The edges in the order of their start, then of their end.
EdgeBefore(x, y) == x[1] < y[1] \/ (x[1] = y[1] /\ x[2] <= y[2])

\* The maps after add_directed_edge was called for every edge of E, in order.
RECURSIVE from_edges(_, _, _)
from_edges(out, in, E) ==
    IF E = {} THEN [outedges |-> out, inedges |-> in]
    ELSE LET e == CHOOSE x \in E : \A y \in E : EdgeBefore(x, y)
             a == add_directed_edge(out, in, e[1], e[2])
         IN  from_edges(a.outedges, a.inedges, E \ {e})

\* The keys of a map in ascending order.
RECURSIVE AscendingKeys(_)
AscendingKeys(keys) ==
    IF keys = {} THEN <<>>
    ELSE LET k == CHOOSE x \in keys : \A y \in keys : x <= y
         IN  <<k>> \o AscendingKeys(keys \ {k})

\* reduce_graph run on the maps built from E, its deque in ascending order.
ReducedEdges(E) ==
    LET g == from_edges(EmptyMap, EmptyMap, E)
    IN  EdgeSet(reduce_loop(g.outedges, g.inedges,
                            AscendingKeys(DOMAIN g.outedges)).outedges)

Init ==
    /\ outedges = EmptyMap
    /\ inedges = EmptyMap
    /\ pc = "idle"
    /\ candidates = <<>>
    /\ node = None
    /\ nbr_in = None
    /\ nbr_out = None
    /\ call = [op |-> "none", start |-> None, end |-> None]
    /\ ret = None
    /\ exc = "none"
    /\ edges0 = {}
    /\ iter0 = 0
    /\ reduced = FALSE
    /\ iterE = {}
    /\ eliminated = {}
    /\ infile = NoFile
    /\ outfile = <<>>

\* A caller's graph.add_directed_edge(start, end).
AddDirectedEdge ==
    /\ pc = "idle"
    /\ \E start \in Nodes, end \in Nodes :
         /\ HasEdge(outedges, start, end) \/ NumEdges(outedges) < MaxEdges
         /\ LET r == add_directed_edge(outedges, inedges, start, end)
            IN  /\ outedges' = r.outedges
                /\ inedges' = r.inedges
                /\ ret' = IF r.exc = "none" THEN r.ret ELSE None
                /\ exc' = r.exc
                /\ call' = [op |-> "add", start |-> start, end |-> end]
    /\ pc' = "returned"
    /\ reduced' = FALSE
    /\ UNCHANGED <<candidates, node, nbr_in, nbr_out, edges0, iter0, iterE,
                   eliminated, infile, outfile>>

\* A caller's graph.del_directed_edge(start, end); the caller catches KeyError.
DelDirectedEdge ==
    /\ pc = "idle"
    /\ \E start \in Nodes, end \in Nodes :
         LET r == del_directed_edge(outedges, inedges, start, end)
         IN  /\ outedges' = r.outedges
             /\ inedges' = r.inedges
             /\ exc' = r.exc
             /\ call' = [op |-> "del", start |-> start, end |-> end]
    /\ ret' = None
    /\ pc' = "returned"
    /\ reduced' = FALSE
    /\ UNCHANGED <<candidates, node, nbr_in, nbr_out, edges0, iter0, iterE,
                   eliminated, infile, outfile>>

\* reduce_graph is entered: candidates = deque(self.outedges.keys()).
ReduceStart ==
    /\ pc = "idle"
    /\ \E q \in KeyOrders(outedges) : candidates' = q
    /\ pc' = "while"
    /\ call' = [op |-> "reduce", start |-> None, end |-> None]
    /\ ret' = None
    /\ edges0' = EdgeSet(outedges)
    /\ iter0' = NumEdges(outedges)
    /\ iterE' = EdgeSet(outedges)
    /\ eliminated' = {}
    /\ UNCHANGED <<outedges, inedges, node, nbr_in, nbr_out, exc, reduced,
                   infile, outfile>>

\* One test of the while loop that succeeds: popleft, the two lookups, the
\* test of the degrees.
ReducePop ==
    /\ pc = "while"
    /\ Len(candidates) > 0
    /\ LET n == Head(candidates)
       IN  /\ node' = n
           /\ candidates' = PopLeft(candidates)
           /\ IF Removable(outedges, inedges, n)
                THEN /\ nbr_in' = Lookup(inedges, n)[1]
                     /\ nbr_out' = Lookup(outedges, n)[1]
                     /\ pc' = "del_in"
                ELSE /\ UNCHANGED <<nbr_in, nbr_out>>
                     /\ pc' = "while"
    /\ iter0' = NumEdges(outedges)
    /\ iterE' = EdgeSet(outedges)
    /\ call' = [op |-> "reduce", start |-> None, end |-> None]
    /\ ret' = None
    /\ UNCHANGED <<outedges, inedges, exc, edges0, reduced, eliminated,
                   infile, outfile>>

\* self.del_directed_edge(nbr_in, node), then the test for a self-cycle.
ReduceDelIn ==
    /\ pc = "del_in"
    /\ LET r == del_directed_edge(outedges, inedges, nbr_in, node)
       IN  /\ outedges' = r.outedges
           /\ inedges' = r.inedges
           /\ exc' = r.exc
           /\ pc' = IF r.exc # "none" THEN "returned"
                    ELSE IF IsSelfCycle(node, nbr_out) THEN "while"
                    ELSE "del_out"
           /\ call' = IF r.exc # "none"
                        THEN [op |-> "reduce", start |-> None, end |-> None]
                        ELSE [op |-> "del", start |-> nbr_in, end |-> node]
           /\ eliminated' = IF r.exc = "none" /\ IsSelfCycle(node, nbr_out)
                              THEN eliminated \cup {node}
                              ELSE eliminated
    /\ ret' = None
    /\ UNCHANGED <<candidates, node, nbr_in, nbr_out, edges0, iter0, reduced,
                   iterE, infile, outfile>>

\* self.del_directed_edge(node, nbr_out)
ReduceDelOut ==
    /\ pc = "del_out"
    /\ LET r == del_directed_edge(outedges, inedges, node, nbr_out)
       IN  /\ outedges' = r.outedges
           /\ inedges' = r.inedges
           /\ exc' = r.exc
           /\ pc' = IF r.exc # "none" THEN "returned" ELSE "add"
           /\ call' = IF r.exc # "none"
                        THEN [op |-> "reduce", start |-> None, end |-> None]
                        ELSE [op |-> "del", start |-> node, end |-> nbr_out]
    /\ ret' = None
    /\ UNCHANGED <<candidates, node, nbr_in, nbr_out, edges0, iter0, reduced,
                   iterE, eliminated, infile, outfile>>

\* Mutant: the new edge runs from the successor to the predecessor.
ReduceAdd_swapped ==
    /\ pc = "add"
    /\ LET r == add_directed_edge(outedges, inedges, nbr_out, nbr_in)
       IN  /\ outedges' = r.outedges
           /\ inedges' = r.inedges
           /\ exc' = r.exc
           /\ ret' = IF r.exc = "none" THEN r.ret ELSE None
           /\ pc' = IF r.exc # "none" THEN "returned" ELSE "while"
           /\ candidates' = IF r.exc # "none" THEN candidates
                            ELSE Requeue(candidates, r.ret, nbr_in, nbr_out)
           /\ call' = IF r.exc # "none"
                        THEN [op |-> "reduce", start |-> None, end |-> None]
                        ELSE [op |-> "add", start |-> nbr_out, end |-> nbr_in]
           /\ eliminated' = IF r.exc = "none" THEN eliminated \cup {node}
                              ELSE eliminated
    /\ UNCHANGED <<node, nbr_in, nbr_out, edges0, iter0, reduced, iterE,
                   infile, outfile>>

\* already_connected = self.add_directed_edge(nbr_in, nbr_out), and the appends.
ReduceAdd ==
    /\ pc = "add"
    /\ LET r == add_directed_edge(outedges, inedges, nbr_in, nbr_out)
       IN  /\ outedges' = r.outedges
           /\ inedges' = r.inedges
           /\ exc' = r.exc
           /\ ret' = IF r.exc = "none" THEN r.ret ELSE None
           /\ pc' = IF r.exc # "none" THEN "returned" ELSE "while"
           /\ candidates' = IF r.exc # "none" THEN candidates
                            ELSE Requeue(candidates, r.ret, nbr_in, nbr_out)
           /\ call' = IF r.exc # "none"
                        THEN [op |-> "reduce", start |-> None, end |-> None]
                        ELSE [op |-> "add", start |-> nbr_in, end |-> nbr_out]
           /\ eliminated' = IF r.exc = "none" THEN eliminated \cup {node}
                              ELSE eliminated
    /\ UNCHANGED <<node, nbr_in, nbr_out, edges0, iter0, reduced, iterE,
                   infile, outfile>>

\* The while test fails: reduce_graph returns, and its locals are gone.
ReduceReturn ==
    /\ pc = "while"
    /\ Len(candidates) = 0
    /\ pc' = "returned"
    /\ node' = None
    /\ nbr_in' = None
    /\ nbr_out' = None
    /\ call' = [op |-> "reduce", start |-> None, end |-> None]
    /\ ret' = None
    /\ iter0' = 0
    /\ iterE' = {}
    /\ reduced' = TRUE
    /\ UNCHANGED <<outedges, inedges, candidates, exc, edges0, eliminated,
                   infile, outfile>>

\* The caller has the result of its call (a return value it may drop, as
\* from_file does, or an exception it catches) and goes on.
Continue ==
    /\ pc = "returned"
    /\ pc' = "idle"
    /\ candidates' = <<>>
    /\ node' = None
    /\ nbr_in' = None
    /\ nbr_out' = None
    /\ call' = [op |-> "none", start |-> None, end |-> None]
    /\ ret' = None
    /\ exc' = "none"
    /\ edges0' = {}
    /\ iter0' = 0
    /\ iterE' = {}
    /\ eliminated' = {}
    /\ UNCHANGED <<outedges, inedges, reduced, infile, outfile>>

ReduceStep == ReducePop \/ ReduceDelIn \/ ReduceDelOut \/ ReduceAdd \/ ReduceReturn

Next ==
    \/ AddDirectedEdge
    \/ DelDirectedEdge
    \/ ReduceStart
    \/ ReducePop
    \/ ReduceDelIn
    \/ ReduceDelOut
    \/ ReduceAdd
    \/ ReduceReturn
    \/ Continue

Spec == Init /\ [][Next]_vars

\* The input graphs: every edge set of at most MaxEdges edges.
InputGraphs == {E \in SUBSET (Nodes \X Nodes) : Cardinality(E) <= MaxEdges}

\* The state after add_directed_edge was called for every edge of an input graph.
LoopInit ==
    \E E \in InputGraphs :
        LET g == from_edges(EmptyMap, EmptyMap, E)
        IN  /\ outedges = g.outedges
            /\ inedges = g.inedges
            /\ pc = "idle"
            /\ candidates = <<>>
            /\ node = None
            /\ nbr_in = None
            /\ nbr_out = None
            /\ call = [op |-> "none", start |-> None, end |-> None]
            /\ ret = None
            /\ exc = "none"
            /\ edges0 = {}
            /\ iter0 = 0
            /\ reduced = FALSE
            /\ iterE = {}
            /\ eliminated = {}
            /\ infile = NoFile
            /\ outfile = <<>>

\* reduce_graph run on an input graph, any number of times.
LoopNext ==
    \/ ReduceStart
    \/ ReducePop
    \/ ReduceDelIn
    \/ ReduceDelOut
    \/ ReduceAdd
    \/ ReduceReturn
    \/ Continue

\* reduce_graph is a plain sequential loop: once entered it keeps running.
FairSpec == LoopInit /\ [][LoopNext]_vars /\ WF_vars(ReduceStep)

(***************************************************************************)
(* main: from_file(sys.stdin), reduce_graph(), to_file(sys.stdout).        *)
(* A line is the sequence of its tokens, without its newline: node ids     *)
(* (each a run of word characters) and the separators between them.        *)
(***************************************************************************)
Tab == "\t"
Space == " "

\* EDGE_RE.match(line): a node id, one tab, a node id, and nothing else.
edge_match(line) ==
    /\ Len(line) = 3
    /\ line[1] \in Nodes
    /\ line[2] = Tab
    /\ line[3] \in Nodes

\* The lines an input may hold: every edge line, and lines that are no edge
\* line (a blank line, a space for the tab, a missing end node).
InputLines ==
    {<<a, Tab, b>> : a \in Nodes, b \in Nodes}
        \cup {<<>>, <<1, Space, 1>>, <<1, Tab>>}

InputFiles == UNION {[1..n -> InputLines] : n \in 0..MaxLines}

\* Mutant: a line that does not match is skipped.
from_file_line_skips(out, in, line) ==
    IF ~edge_match(line)
      THEN [outedges |-> out, inedges |-> in, exc |-> "none"]
      ELSE LET a == add_directed_edge(out, in, line[1], line[3])
           IN  [outedges |-> a.outedges, inedges |-> a.inedges, exc |-> a.exc]

\* The body of from_file's loop for one line.
from_file_line(out, in, line) ==
    IF ~edge_match(line)
      THEN [outedges |-> out, inedges |-> in, exc |-> "ValueError"]
      ELSE LET a == add_directed_edge(out, in, line[1], line[3])
           IN  [outedges |-> a.outedges, inedges |-> a.inedges, exc |-> a.exc]

\* What to_file writes when items() yields the keys in the order `keys`.
RECURSIVE to_file(_, _)
to_file(edgemap, keys) ==
    IF Len(keys) = 0 THEN <<>>
    ELSE LET start == Head(keys)
         IN  [i \in 1..Len(edgemap[start]) |-> <<start, Tab, edgemap[start][i]>>]
                 \o to_file(edgemap, Tail(keys))

\* graph = Graph(): the maps are the class attributes, None; stdin holds a file.
MainInit ==
    /\ outedges = None
    /\ inedges = None
    /\ pc = "main"
    /\ candidates = <<>>
    /\ node = None
    /\ nbr_in = None
    /\ nbr_out = None
    /\ call = [op |-> "none", start |-> None, end |-> None]
    /\ ret = None
    /\ exc = "none"
    /\ edges0 = {}
    /\ iter0 = 0
    /\ reduced = FALSE
    /\ iterE = {}
    /\ eliminated = {}
    /\ \E f \in InputFiles : infile = [lines |-> f, pos |-> 0]
    /\ outfile = <<>>

\* from_file is entered: both maps are reset.
FromFileEnter ==
    /\ pc = "main"
    /\ pc' = "from_file"
    /\ outedges' = EmptyMap
    /\ inedges' = EmptyMap
    /\ call' = [op |-> "from_file", start |-> None, end |-> None]
    /\ UNCHANGED <<candidates, node, nbr_in, nbr_out, ret, exc, edges0, iter0,
                   reduced, iterE, eliminated, infile, outfile>>

\* One line is read and handled; ValueError ends main.
FromFileLine ==
    /\ pc = "from_file"
    /\ infile.pos < Len(infile.lines)
    /\ LET r == from_file_line(outedges, inedges, infile.lines[infile.pos + 1])
       IN  /\ outedges' = r.outedges
           /\ inedges' = r.inedges
           /\ exc' = r.exc
           /\ pc' = IF r.exc = "none" THEN "from_file" ELSE "exit"
    /\ infile' = [infile EXCEPT !.pos = @ + 1]
    /\ UNCHANGED <<candidates, node, nbr_in, nbr_out, call, ret, edges0, iter0,
                   reduced, iterE, eliminated, outfile>>

\* readline returns "" at the end of the input: from_file returns.
FromFileReturn ==
    /\ pc = "from_file"
    /\ infile.pos = Len(infile.lines)
    /\ pc' = "idle"
    /\ UNCHANGED <<outedges, inedges, candidates, node, nbr_in, nbr_out, call,
                   ret, exc, edges0, iter0, reduced, iterE, eliminated, infile,
                   outfile>>

\* graph.to_file(sys.stdout) after reduce_graph returned, then sys.exit(0).
ToFile ==
    /\ pc = "returned"
    /\ call.op = "reduce"
    /\ exc = "none"
    /\ \E q \in KeyOrders(outedges) : outfile' = to_file(outedges, q)
    /\ pc' = "exit"
    /\ call' = [op |-> "to_file", start |-> None, end |-> None]
    /\ UNCHANGED <<outedges, inedges, candidates, node, nbr_in, nbr_out, ret,
                   exc, edges0, iter0, reduced, iterE, eliminated, infile>>

MainNext ==
    \/ FromFileEnter
    \/ FromFileLine
    \/ FromFileReturn
    \/ ReduceStart
    \/ ReducePop
    \/ ReduceDelIn
    \/ ReduceDelOut
    \/ ReduceAdd
    \/ ReduceReturn
    \/ ToFile

MainSpec == MainInit /\ [][MainNext]_vars

(***************************************************************************)
(* Properties.                                                             *)
(***************************************************************************)
ReduceReturned == pc = "returned" /\ call.op = "reduce" /\ exc = "none"

InReduce == pc \in {"while", "del_in", "del_out", "add"}

NoDuplicates(edgemap) ==
    \A k \in DOMAIN edgemap :
        \A i, j \in 1..Len(edgemap[k]) : i # j => edgemap[k][i] # edgemap[k][j]

\* Degrees in the edge set reduce_graph started from.
InDegree0(n)  == Cardinality({e \in edges0 : e[2] = n})
OutDegree0(n) == Cardinality({e \in edges0 : e[1] = n})

\* C1: when reduce_graph returns, no node has in-degree exactly 1 and
\* out-degree exactly 1 (a node absent from a map has degree 0 there); self-loops
\* and two-node cycles are no exception.
C1_NoPassThroughLeft ==
    ReduceReturned => \A n \in Nodes : ~(InDegree(n) = 1 /\ OutDegree(n) = 1)

\* reduce_graph returned, its input held a node of in- and out-degree 1 that
\* was part of a self-loop or two-node cycle, and edges are left.
C1_Witness ==
    /\ ReduceReturned
    /\ \E n \in Nodes : /\ InDegree0(n) = 1 /\ OutDegree0(n) = 1
                        /\ \E m \in Nodes : {<<n, m>>, <<m, n>>} \subseteq edges0
    /\ outedges # EmptyMap

\* C2: after every completed add_directed_edge or del_directed_edge call, those
\* inside reduce_graph included, b is in outedges[a] iff a is in inedges[b], and
\* the assertion exists_out == exists_in has not failed.
C2_MirrorConsistency ==
    /\ \A a, b \in Nodes : HasEdge(outedges, a, b) <=> HasEdge(inedges, b, a)
    /\ exc # "AssertionError"

\* Between the two deletions of one elimination inside reduce_graph.
C2_Witness ==
    /\ pc = "del_out"
    /\ call = [op |-> "del", start |-> nbr_in, end |-> node]
    /\ nbr_in # nbr_out

\* C3: no adjacency list of outedges or inedges holds the same node id twice,
\* in any state add_directed_edge, del_directed_edge and reduce_graph reach.
C3_NoDuplicateEdges == NoDuplicates(outedges) /\ NoDuplicates(inedges)

\* reduce_graph's add_directed_edge met an edge that was there already.
C3_Witness == pc = "while" /\ call.op = "add" /\ ret = 1

\* C4: every key of outedges and of inedges maps to a non-empty list.
C4_NoEmptyEntries ==
    /\ \A k \in DOMAIN outedges : Len(outedges[k]) > 0
    /\ \A k \in DOMAIN inedges : Len(inedges[k]) > 0

\* A caller's del_directed_edge removed the last edge of both its keys, and the
\* keys went with it, while other keys remain.
C4_Witness ==
    /\ pc = "returned" /\ call.op = "del" /\ exc = "none"
    /\ call.start \notin DOMAIN outedges
    /\ call.end \notin DOMAIN inedges
    /\ outedges # EmptyMap

\* C5: add_directed_edge(start, end) returns 1 iff start->end was present
\* before the call, and then leaves both maps as they were; otherwise it returns
\* 0 and the edge is in both maps afterwards; also when start == end.
C5_AddReturnsExisted ==
    [][(pc = "add" \/ (pc = "idle" /\ call'.op = "add")) =>
         /\ exc' = "none"
         /\ call'.op = "add"
         /\ pc = "add" => (call'.start = nbr_in /\ call'.end = nbr_out)
         /\ ret' \in {0, 1}
         /\ ret' = 1 <=> HasEdge(outedges, call'.start, call'.end)
         /\ ret' = 1 => (outedges' = outedges /\ inedges' = inedges)
         /\ ret' = 0 => /\ HasEdge(outedges', call'.start, call'.end)
                        /\ HasEdge(inedges', call'.end, call'.start)]_vars

\* A caller added a self-loop that was there already.
C5_Witness ==
    pc = "returned" /\ call.op = "add" /\ call.start = call.end /\ ret = 1

\* C6: del_directed_edge(start, end) for an edge that is not present raises
\* KeyError and leaves outedges and inedges exactly as they were.
C6_DelAbsentRaises ==
    [][(pc = "idle" /\ call'.op = "del"
          /\ ~HasEdge(outedges, call'.start, call'.end)) =>
         /\ exc' = "KeyError"
         /\ outedges' = outedges
         /\ inedges' = inedges]_vars

\* A caller's del_directed_edge raised KeyError on a graph that has edges.
C6_Witness ==
    /\ pc = "returned" /\ call.op = "del" /\ exc = "KeyError"
    /\ outedges # EmptyMap
    /\ call.start \notin DOMAIN outedges

\* C7: the edge set reduce_graph leaves is the same for every order of its
\* initial deque: it is the one the ascending order leaves.
C7_OrderIndependent ==
    ReduceReturned => EdgeSet(outedges) = ReducedEdges(edges0)

\* reduce_graph returned after starting from two keys or more, having removed
\* some edge and kept some edge.
C7_Witness ==
    /\ ReduceReturned
    /\ Cardinality({e[1] : e \in edges0}) >= 2
    /\ EdgeSet(outedges) # edges0
    /\ outedges # EmptyMap

\* C8: a reduce_graph run on the graph a reduce_graph run left deletes no edge,
\* adds none, and leaves both maps as they were.
C8_Idempotent ==
    [][(reduced /\ InReduce) =>
         /\ outedges' = outedges
         /\ inedges' = inedges
         /\ pc' \in {"while", "returned"}]_vars

\* The second run has looked at every candidate of a graph with edges.
C8_Witness ==
    /\ reduced
    /\ pc = "while"
    /\ Len(candidates) = 0
    /\ Cardinality(DOMAIN outedges) >= 2

\* C9: reduce_graph, once entered, returns; and an iteration that appends to
\* the deque leaves fewer edges than it found.
C9_Terminates ==
    /\ InReduce ~> (pc = "returned")
    /\ [][(pc = "add" /\ Len(candidates') > Len(candidates)) =>
            NumEdges(outedges') < iter0]_vars

\* An iteration appended to the deque.
C9_Witness ==
    /\ pc = "while" /\ call.op = "add" /\ ret = 1
    /\ Len(candidates) >= 2
    /\ NumEdges(outedges) = iter0 - 2

\* C10: inside reduce_graph no del_directed_edge raises KeyError: the edge
\* pred->node, and then the edge node->succ, is in both maps when its deletion
\* is called; self-loops and two-node cycles included.
C10_NoKeyErrorInReduce ==
    /\ ~(call.op = "reduce" /\ exc = "KeyError")
    /\ pc = "del_in" => /\ HasEdge(outedges, nbr_in, node)
                        /\ HasEdge(inedges, node, nbr_in)
    /\ pc = "del_out" => /\ HasEdge(outedges, node, nbr_out)
                         /\ HasEdge(inedges, nbr_out, node)

\* Both deletions of a node of a two-node cycle are done.
C10_Witness == pc = "add" /\ nbr_in = nbr_out /\ exc = "none"

\* The pairs (u, v) with a directed path of one edge or more from u to v.
RECURSIVE Closure(_)
Closure(R) ==
    LET R2 == R \cup {p \in Nodes \X Nodes :
                        \E m \in Nodes : <<p[1], m>> \in R /\ <<m, p[2]>> \in R}
    IN  IF R2 = R THEN R ELSE Closure(R2)

\* The nodes that have an edge in the graph as it is.
Surviving == (DOMAIN outedges) \cup (DOMAIN inedges)

\* C11: for all nodes u, v that still have an edge when reduce_graph returns,
\* the reduced graph has a path of length >= 1 from u to v iff the input had one.
C11_ReachabilityPreserved ==
    ReduceReturned =>
        \A u, v \in Surviving :
            <<u, v>> \in Closure(EdgeSet(outedges)) <=> <<u, v>> \in Closure(edges0)

\* reduce_graph returned a graph with an edge the input did not have: a path
\* through an eliminated node became a direct edge between two other nodes.
C11_Witness ==
    /\ ReduceReturned
    /\ \E e \in EdgeSet(outedges) : e \notin edges0 /\ e[1] # e[2]

\* S is a connected component of E that is a simple directed cycle.
IsIsolatedCycle(S, E) ==
    /\ S # {}
    /\ \A e \in E : e[1] \in S <=> e[2] \in S
    /\ \A n \in S : /\ Cardinality({e \in E : e[1] = n}) = 1
                    /\ Cardinality({e \in E : e[2] = n}) = 1
    /\ \A a, b \in S : <<a, b>> \in Closure(E)

\* C12: an isolated simple directed cycle of the input (a self-loop, a mutual
\* pair, or longer) is gone when reduce_graph returns: none of its nodes has an
\* edge.
C12_IsolatedCycleRemoved ==
    ReduceReturned =>
        \A S \in SUBSET Nodes :
            IsIsolatedCycle(S, edges0) => S \cap Surviving = {}

\* reduce_graph returned from an input with an isolated cycle of two nodes or
\* more beside another component.
C12_Witness ==
    /\ ReduceReturned
    /\ \E S \in SUBSET Nodes : /\ IsIsolatedCycle(S, edges0)
                               /\ Cardinality(S) >= 2
                               /\ \E e \in edges0 : e[1] \notin S

\* Some line of the input does not match the edge pattern.
HasInvalidLine == \E i \in 1..Len(infile.lines) : ~edge_match(infile.lines[i])

\* C13: when a line of the input fails to match, main ends in from_file with
\* ValueError: reduce_graph is never entered, to_file never runs, and nothing
\* is written.
C13_InvalidLineAborts ==
    HasInvalidLine =>
        /\ pc \in {"main", "from_file", "exit"}
        /\ call.op \notin {"reduce", "to_file"}
        /\ outfile = <<>>
        /\ pc = "exit" <=> exc = "ValueError"
        /\ pc = "exit" => ~edge_match(infile.lines[infile.pos])

\* main ended on an invalid second line, an edge of the first line in the maps.
C13_Witness ==
    /\ pc = "exit"
    /\ exc = "ValueError"
    /\ infile.pos = 2
    /\ outedges # EmptyMap

\* A step that ends an iteration of reduce_graph's loop.
IterationEnds == InReduce /\ pc' = "while"

\* A step that ends an iteration which eliminated its node.
EliminationEnds == pc \in {"del_in", "add"} /\ pc' = "while"

\* The part of the deque this step appended, the popped head apart.
AppendedSeq ==
    LET kept == IF pc = "while" /\ Len(candidates) > 0
                  THEN Len(candidates) - 1 ELSE Len(candidates)
    IN  SubSeq(candidates', kept + 1, Len(candidates'))

Appended == {AppendedSeq[i] : i \in 1..Len(AppendedSeq)}

\* Degrees when the iteration popped its node.
IterInDegree(E, n)  == Cardinality({e \in E : e[2] = n})
IterOutDegree(E, n) == Cardinality({e \in E : e[1] = n})

\* C14: in every iteration the nodes, the eliminated one apart, whose in- or
\* out-degree differs between the start and the end of the iteration are exactly
\* the nodes the iteration appended: pred and succ when add_directed_edge
\* reported the edge present, none in every other iteration.
C14_AppendedAreTheChanged ==
    [][IterationEnds =>
         LET changed == {n \in Nodes \ {node'} :
                            \/ Len(Lookup(outedges', n)) # IterOutDegree(iterE', n)
                            \/ Len(Lookup(inedges', n)) # IterInDegree(iterE', n)}
         IN  /\ changed = Appended
             /\ IF pc = "add" /\ ret' = 1
                  THEN AppendedSeq = <<nbr_in, nbr_out>>
                  ELSE AppendedSeq = <<>>]_vars

\* An iteration found pred->succ present and appended two distinct neighbours.
C14_Witness ==
    /\ pc = "while" /\ call.op = "add" /\ ret = 1
    /\ nbr_in # nbr_out
    /\ Len(candidates) >= 2
    /\ candidates[Len(candidates)] = nbr_out
    /\ candidates[Len(candidates) - 1] = nbr_in

\* C15: an elimination of a node that is no self-loop removes exactly the two
\* edges pred->node and node->succ and adds at most the edge pred->succ, none
\* when it was present, also when pred == succ; an elimination of a self-loop
\* removes exactly that edge and adds none; either leaves fewer edges.
C15_EdgeCountPerElimination ==
    [][EliminationEnds =>
         LET after   == EdgeSet(outedges')
             removed == iterE \ after
             added   == after \ iterE
         IN  /\ NumEdges(outedges') = Cardinality(after)
             /\ NumEdges(inedges') = Cardinality(after)
             /\ Cardinality(after) < iter0
             /\ IF pc = "del_in"
                  THEN /\ removed = {<<node, node>>}
                       /\ added = {}
                       /\ Cardinality(after) = iter0 - 1
                  ELSE /\ removed = {<<nbr_in, node>>, <<node, nbr_out>>}
                       /\ Cardinality(removed) = 2
                       /\ added \subseteq {<<nbr_in, nbr_out>>}
                       /\ added = {} <=> <<nbr_in, nbr_out>> \in iterE
                       /\ added = {} <=> ret' = 1
                       /\ Cardinality(after) = iter0 - 2 + Cardinality(added)]_vars

\* A node between a mutual pair was eliminated: pred == succ, two edges
\* removed and the self-loop of the neighbour added.
C15_Witness ==
    /\ pc = "while" /\ call.op = "add" /\ ret = 0
    /\ nbr_in = nbr_out
    /\ NumEdges(outedges) = iter0 - 1

\* C16: a node reduce_graph has eliminated is a key of neither map in every
\* later state of the run, and no step appends it to the deque.
C16_EliminatedStaysGone ==
    [][/\ eliminated' \cap ((DOMAIN outedges') \cup (DOMAIN inedges')) = {}
       /\ InReduce => Appended \cap eliminated' = {}]_vars

\* After an elimination the run went on to append neighbours in a later one.
C16_Witness ==
    /\ pc = "while" /\ call.op = "add" /\ ret = 1
    /\ Cardinality(eliminated) >= 1
    /\ node \in eliminated
    /\ outedges # EmptyMap

\* C17 as stated: the node popleft returns was never eliminated before.
C17_Original ==
    [][(pc = "while" /\ Len(candidates) > 0) =>
         Head(candidates) \notin eliminated]_vars

\* C17, amended: popleft may return a node eliminated before (the deque can
\* hold a node more than once); that node is then a key of neither map, fails
\* the degree test, and the iteration changes neither map nor appends.
C17_PoppedEliminatedIsSkipped ==
    [][(pc = "while" /\ Len(candidates) > 0 /\ Head(candidates) \in eliminated) =>
         /\ Head(candidates) \notin Surviving
         /\ pc' = "while"
         /\ outedges' = outedges
         /\ inedges' = inedges
         /\ candidates' = Tail(candidates)]_vars

\* popleft has just returned a node that was eliminated before.
C17_Witness == pc = "while" /\ call.op = "reduce" /\ node \in eliminated

\* C18 as stated: no step of reduce_graph increases a degree, and a node
\* without out-edge at the start is never removable.
C18_Original ==
    [][InReduce =>
         \A n \in Nodes :
             /\ Len(Lookup(outedges', n)) <= Len(Lookup(outedges, n))
             /\ Len(Lookup(inedges', n)) <= Len(Lookup(inedges, n))
             /\ OutDegree0(n) = 0 => ~Removable(outedges', inedges', n)]_vars

\* C18, amended: add_directed_edge(pred, succ) gives back to pred and succ the
\* degree the two deletions took, so a degree can go up within an iteration;
\* but no degree is ever above its value at the start of reduce_graph, none is
\* above its value at the previous test of the while loop, and a node that was
\* no key of outedges at the start is never removable.
C18_DegreesNeverAboveStart ==
    (InReduce \/ (pc = "returned" /\ call.op = "reduce")) =>
        \A n \in Nodes :
            /\ OutDegree(n) <= OutDegree0(n)
            /\ InDegree(n) <= InDegree0(n)
            /\ pc = "while" => /\ OutDegree(n) <= IterOutDegree(iterE, n)
                               /\ InDegree(n) <= IterInDegree(iterE, n)
            /\ OutDegree0(n) = 0 => ~Removable(outedges, inedges, n)

\* A new edge pred->succ was added while a node with one in-edge and no
\* out-edge at the start is in the graph.
C18_Witness ==
    /\ pc = "while" /\ call.op = "add" /\ ret = 0
    /\ nbr_in # nbr_out
    /\ \E n \in Nodes : OutDegree0(n) = 0 /\ InDegree0(n) = 1 /\ InDegree(n) = 1

\* The del_directed_edge(start, end) call this step makes, if it makes one.
IsDelCall(start, end) ==
    \/ pc = "idle" /\ call'.op = "del" /\ call'.start = start /\ call'.end = end
    \/ pc = "del_in" /\ start = nbr_in /\ end = node
    \/ pc = "del_out" /\ start = node /\ end = nbr_out

\* C19: del_directed_edge(start, end) for an edge that is present, a self-loop
\* included, removes that one edge from both maps and leaves every other edge,
\* and every other list, as it was.
C19_DelRemovesOneEdge ==
    [][\A start, end \in Nodes :
         (IsDelCall(start, end) /\ HasEdge(outedges, start, end)
                                /\ HasEdge(inedges, end, start)) =>
           /\ exc' = "none"
           /\ EdgeSet(outedges') = EdgeSet(outedges) \ {<<start, end>>}
           /\ EdgeSet(inedges') = EdgeSet(inedges) \ {<<end, start>>}
           /\ NumEdges(outedges') = NumEdges(outedges) - 1
           /\ NumEdges(inedges') = NumEdges(inedges) - 1
           /\ \A k \in Nodes \ {start} : Lookup(outedges', k) = Lookup(outedges, k)
           /\ \A k \in Nodes \ {end} : Lookup(inedges', k) = Lookup(inedges, k)]_vars

\* A caller deleted the self-loop of a node that keeps another out-edge.
C19_Witness ==
    /\ pc = "returned" /\ call.op = "del" /\ exc = "none"
    /\ call.start = call.end
    /\ call.start \in DOMAIN outedges

====
